---- MODULE Spec2Model ----
(***************************************************************************)
(* Model of packages/stack-server/src/lib/projects.tsx: the project access *)
(* guard (isProjectAdmin), the project creator (createProject, an          *)
(* interactive storage transaction), the project reconciler (updateProject *)
(* and getProject, a batch storage transaction) and the assembler          *)
(* (projectJsonFromDbType), run by concurrent request handlers against one *)
(* relational store.                                                       *)
(*                                                                         *)
(* JavaScript null / undefined / an absent optional is the empty sequence  *)
(* <<>> and a present optional value v is <<v>>.                           *)
(***************************************************************************)
EXTENDS Integers, Sequences, FiniteSets, TLC

\* ------------------------------------------------------------------ bounds
\* createProject calls begun in one behaviour
MaxProjects == 2
\* updateProject calls begun in one behaviour
MaxUpdates == 1
\* longest oauthProviders list submitted to updateProject
MaxProviders == 2

\* ------------------------------------------------------------- vocabulary
Procs == {"r1", "r2"}

None == <<>>
Some(v) == <<v>>

\* identifiers handed out by generateUuid() and by the store's uuid() default
UuidPool == <<"id1", "id2", "id3", "id4", "id5", "id6", "id7", "id8">>

sharedProviders == {"shared-github", "shared-google", "shared-facebook", "shared-microsoft"}
standardProviders == {"github", "facebook", "google", "microsoft"}
ProxiedOauthProviderType == {"GITHUB", "GOOGLE", "FACEBOOK", "MICROSOFT"}
StandardOauthProviderType == {"GITHUB", "FACEBOOK", "GOOGLE", "MICROSOFT"}

toDBSharedProvider(type) ==
  CASE type = "shared-github" -> "GITHUB"
    [] type = "shared-google" -> "GOOGLE"
    [] type = "shared-facebook" -> "FACEBOOK"
    [] type = "shared-microsoft" -> "MICROSOFT"

toDBStandardProvider(type) ==
  CASE type = "github" -> "GITHUB"
    [] type = "facebook" -> "FACEBOOK"
    [] type = "google" -> "GOOGLE"
    [] type = "microsoft" -> "MICROSOFT"

\* fromDBSharedProvider with the rows of GOOGLE and FACEBOOK exchanged
fromDBSharedProviderSwapped(type) ==
  CASE type = "GITHUB" -> "shared-github"
    [] type = "GOOGLE" -> "shared-facebook"
    [] type = "FACEBOOK" -> "shared-google"
    [] type = "MICROSOFT" -> "shared-microsoft"

fromDBSharedProvider(type) ==
  CASE type = "GITHUB" -> "shared-github"
    [] type = "GOOGLE" -> "shared-google"
    [] type = "FACEBOOK" -> "shared-facebook"
    [] type = "MICROSOFT" -> "shared-microsoft"

fromDBStandardProvider(type) ==
  CASE type = "GITHUB" -> "github"
    [] type = "FACEBOOK" -> "facebook"
    [] type = "GOOGLE" -> "google"
    [] type = "MICROSOFT" -> "microsoft"

\* typedToUppercase on the four provider slugs createProject passes to it
typedToUppercase(id) ==
  CASE id = "github" -> "GITHUB"
    [] id = "facebook" -> "FACEBOOK"
    [] id = "google" -> "GOOGLE"
    [] id = "microsoft" -> "MICROSOFT"

\* the slugs createProject creates stub rows for, in the order of the literal
defaultProviderIds == <<"github", "facebook", "google", "microsoft">>

\* ------------------------------------------------------------------ store
EmptyTable == [k \in {} |-> None]

\* the relational store before any project exists
EmptyProjectTables ==
  [project |-> EmptyTable,
   projectConfig |-> EmptyTable,
   oauthProviderConfig |-> <<>>,
   projectDomain |-> <<>>]

\* rows of a table (a sequence in storage order) that satisfy Test
RECURSIVE Rows(_, _)
Rows(table, configId) ==
  IF table = <<>> THEN <<>>
  ELSE (IF Head(table).projectConfigId = configId THEN <<Head(table)>> ELSE <<>>)
       \o Rows(Tail(table), configId)

RECURSIVE RowsNot(_, _)
RowsNot(table, configId) ==
  IF table = <<>> THEN <<>>
  ELSE (IF Head(table).projectConfigId # configId THEN <<Head(table)>> ELSE <<>>)
       \o RowsNot(Tail(table), configId)

\* a project row with everything fullProjectInclude pulls in
ProjectDB(store, projectId) ==
  LET row == store.project[projectId]
      cfg == store.projectConfig[row.configId]
  IN [id |-> projectId,
      isProductionMode |-> row.isProductionMode,
      config |-> [id |-> row.configId,
                  allowLocalhost |-> cfg.allowLocalhost,
                  credentialEnabled |-> cfg.credentialEnabled,
                  oauthProviderConfigs |-> Rows(store.oauthProviderConfig, row.configId),
                  domains |-> Rows(store.projectDomain, row.configId)]]

\* prismaClient.project.findUnique({where: {id}, include: fullProjectInclude})
findUnique(store, projectId) ==
  IF projectId \in DOMAIN store.project THEN Some(ProjectDB(store, projectId)) ELSE None

\* -------------------------------------------------------------- assembler
\* the flatMap callback of projectJsonFromDbType: zero or one view per row
providerJson(provider) ==
  IF provider.proxiedOauthConfig # None
  THEN <<[id |-> provider.id,
          type |-> fromDBSharedProvider(provider.proxiedOauthConfig[1].type)]>>
  ELSE IF provider.standardOauthConfig # None
  THEN <<[id |-> provider.id,
          type |-> fromDBStandardProvider(provider.standardOauthConfig[1].type),
          clientId |-> provider.standardOauthConfig[1].clientId,
          clientSecret |-> provider.standardOauthConfig[1].clientSecret,
          tenantId |-> provider.standardOauthConfig[1].tenantId]>>
  ELSE <<>>

RECURSIVE flatMapProviders(_)
flatMapProviders(rows) ==
  IF rows = <<>> THEN <<>>
  ELSE providerJson(Head(rows)) \o flatMapProviders(Tail(rows))

\* the console.error of the flatMap callback, for a row it emits no view for
providerJsonLog(provider, projectId) ==
  IF provider.proxiedOauthConfig # None THEN <<>>
  ELSE IF provider.standardOauthConfig # None THEN <<>>
  ELSE <<[level |-> "error", providerId |-> provider.id, projectId |-> projectId]>>

RECURSIVE flatMapProvidersLog(_, _)
flatMapProvidersLog(rows, projectId) ==
  IF rows = <<>> THEN <<>>
  ELSE providerJsonLog(Head(rows), projectId) \o flatMapProvidersLog(Tail(rows), projectId)

\* what projectJsonFromDbType writes to the console while it assembles
projectJsonFromDbTypeLog(project) ==
  flatMapProvidersLog(project.config.oauthProviderConfigs, project.id)

projectJsonFromDbType(project) ==
  [id |-> project.id,
   isProductionMode |-> project.isProductionMode,
   evaluatedConfig |->
     [id |-> project.config.id,
      allowLocalhost |-> project.config.allowLocalhost,
      credentialEnabled |-> project.config.credentialEnabled,
      domains |-> [i \in 1..Len(project.config.domains) |->
                     [domain |-> project.config.domains[i].domain,
                      handlerPath |-> project.config.domains[i].handlerPath]],
      oauthProviders |-> flatMapProviders(project.config.oauthProviderConfigs)]]

\* ----------------------------------------------------------- access guard
\* An administrator's serverMetadata. kind is "null" or "object"; managed is
\* what the key managedProjectIds holds: "absent" (no such key), "number" (a
\* value that is no array), "stringArray" (items) or "mixedArray" (items and
\* one element that is no string); theme stands for an unrelated key
\* ("absent" when the object has no such key).
NullMetadata == [kind |-> "null", managed |-> "absent", items |-> <<>>, theme |-> "absent"]

isStringArray(metadata) == metadata.managed = "stringArray"

\* typeof serverMetadata === "object" (true of null as well)
typeofObject(serverMetadata) == serverMetadata.kind \in {"null", "object"}

\* "managedProjectIds" in serverMetadata
hasManagedProjectIds(serverMetadata) == serverMetadata.managed # "absent"

\* listProjectIds: the list, or a throw
listProjectIds(serverMetadata) ==
  IF ~typeofObject(serverMetadata)
     \/ ~(serverMetadata.kind = "null" \/ hasManagedProjectIds(serverMetadata))
  THEN [threw |-> TRUE, ids |-> <<>>]
  ELSE IF serverMetadata.kind = "null"
  THEN [threw |-> FALSE, ids |-> <<>>]
  ELSE IF ~isStringArray(serverMetadata)
  THEN [threw |-> TRUE, ids |-> <<>>]
  ELSE [threw |-> FALSE, ids |-> serverMetadata.items]

includes(list, x) == \E i \in 1..Len(list) : list[i] = x

\* decodeAccessToken: a token is modelled by what it decodes to, or by
\* valid = FALSE when decoding throws
decodeAccessToken(token) ==
  IF token.valid THEN Some([userId |-> token.userId, projectId |-> token.projectId]) ELSE None

\* getServerUser("internal", userId) against the projectUser table
getServerUser(users, projectId, userId) ==
  IF projectId = "internal" /\ userId \in DOMAIN users
  THEN Some([projectId |-> "internal", id |-> userId,
             serverMetadata |-> users[userId].serverMetadata])
  ELSE None

\* isProjectAdmin: "true", "false" or "throw"
isProjectAdmin(users, projectId, adminAccessToken) ==
  LET decoded == decodeAccessToken(adminAccessToken) IN
  IF decoded = None THEN "false"
  ELSE IF decoded[1].projectId # "internal" THEN "false"
  ELSE LET projectUser == getServerUser(users, "internal", decoded[1].userId) IN
       IF projectUser = None THEN "false"
       ELSE LET allProjects == listProjectIds(projectUser[1].serverMetadata) IN
            IF allProjects.threw THEN "throw"
            ELSE IF includes(allProjects.ids, projectId) THEN "true" ELSE "false"

\* ------------------------------------------------------------- reconciler
\* the store's referential structure: a domain or provider row names an
\* existing project config
ForeignKeyOk(store, configId) == configId \in DOMAIN store.projectConfig

\* the store's unique constraint: a provider slug is unique within its config
UniqueProviderOk(store, configId, id) ==
  \A i \in 1..Len(store.oauthProviderConfig) :
    ~(store.oauthProviderConfig[i].projectConfigId = configId
      /\ store.oauthProviderConfig[i].id = id)

\* the statements updateProject pushes for options.config.domains
DomainStatements(projectId, options) ==
  IF options.domains = None THEN <<>>
  ELSE <<[op |-> "projectDomain.deleteMany", projectConfigId |-> projectId]>>
       \o [i \in 1..Len(options.domains[1]) |->
             [op |-> "projectDomain.create",
              projectConfigId |-> projectId,
              domain |-> options.domains[1][i].domain,
              handlerPath |-> options.domains[1][i].handlerPath]]

\* the forEach callback over options.config.oauthProviders: zero or one create
ProviderStatement(configId, providerConfig) ==
  IF providerConfig.type \in sharedProviders
  THEN <<[op |-> "oauthProviderConfig.create",
          projectConfigId |-> configId,
          id |-> providerConfig.id,
          proxiedOauthConfig |-> Some([type |-> toDBSharedProvider(providerConfig.type)]),
          standardOauthConfig |-> None]>>
  ELSE IF providerConfig.type \in standardProviders
  THEN <<[op |-> "oauthProviderConfig.create",
          projectConfigId |-> configId,
          id |-> providerConfig.id,
          proxiedOauthConfig |-> None,
          standardOauthConfig |-> Some([type |-> toDBStandardProvider(providerConfig.type),
                                        clientId |-> providerConfig.clientId,
                                        clientSecret |-> providerConfig.clientSecret,
                                        tenantId |-> providerConfig.tenantId])]>>
  ELSE <<>>

\* the console.error of the forEach callback, for an entry of neither vocabulary
ProviderStatementLog(providerConfig) ==
  IF providerConfig.type \in sharedProviders THEN <<>>
  ELSE IF providerConfig.type \in standardProviders THEN <<>>
  ELSE <<[level |-> "error", type |-> providerConfig.type]>>

RECURSIVE ProviderCreatesLog(_)
ProviderCreatesLog(list) ==
  IF list = <<>> THEN <<>>
  ELSE ProviderStatementLog(Head(list)) \o ProviderCreatesLog(Tail(list))

\* what updateProject writes to the console while it builds its transaction
BuildTransactionLog(options) ==
  IF options.oauthProviders = None THEN <<>>
  ELSE ProviderCreatesLog(options.oauthProviders[1])

RECURSIVE ProviderCreates(_, _)
ProviderCreates(configId, list) ==
  IF list = <<>> THEN <<>>
  ELSE ProviderStatement(configId, Head(list)) \o ProviderCreates(configId, Tail(list))

\* ProviderStatements deleting the provider rows whether or not a list is given
ProviderStatementsAlways(configId, options) ==
  <<[op |-> "oauthProviderConfig.deleteMany", projectConfigId |-> configId]>>
  \o (IF options.oauthProviders = None THEN <<>>
      ELSE ProviderCreates(configId, options.oauthProviders[1]))

\* ProviderStatements without the deleteMany
ProviderStatementsNoDelete(configId, options) ==
  IF options.oauthProviders = None THEN <<>>
  ELSE ProviderCreates(configId, options.oauthProviders[1])

ProviderStatements(configId, options) ==
  IF options.oauthProviders = None THEN <<>>
  ELSE <<[op |-> "oauthProviderConfig.deleteMany", projectConfigId |-> configId]>>
       \o ProviderCreates(configId, options.oauthProviders[1])

CredentialStatements(configId, options) ==
  IF options.credentialEnabled = None THEN <<>>
  ELSE <<[op |-> "projectConfig.update", id |-> configId,
          credentialEnabled |-> options.credentialEnabled[1]]>>

ProductionModeStatements(projectId, options) ==
  IF options.isProductionMode = None THEN <<>>
  ELSE <<[op |-> "project.update", id |-> projectId,
          isProductionMode |-> options.isProductionMode[1]]>>

\* the array updateProject hands to prismaClient.$transaction
BuildTransaction(project, projectId, options) ==
  DomainStatements(projectId, options)
  \o ProviderStatements(project.config.id, options)
  \o CredentialStatements(project.config.id, options)
  \o ProductionModeStatements(projectId, options)

\* one statement against the store: the store after it, or a failure
ExecStatement(store, st) ==
  CASE st.op = "projectDomain.deleteMany" ->
         [ok |-> TRUE,
          store |-> [store EXCEPT !.projectDomain = RowsNot(@, st.projectConfigId)]]
    [] st.op = "projectDomain.create" ->
         IF ForeignKeyOk(store, st.projectConfigId)
         THEN [ok |-> TRUE,
               store |-> [store EXCEPT !.projectDomain =
                            Append(@, [projectConfigId |-> st.projectConfigId,
                                       domain |-> st.domain,
                                       handlerPath |-> st.handlerPath])]]
         ELSE [ok |-> FALSE, store |-> store]
    [] st.op = "oauthProviderConfig.deleteMany" ->
         [ok |-> TRUE,
          store |-> [store EXCEPT !.oauthProviderConfig = RowsNot(@, st.projectConfigId)]]
    [] st.op = "oauthProviderConfig.create" ->
         IF ForeignKeyOk(store, st.projectConfigId)
            /\ UniqueProviderOk(store, st.projectConfigId, st.id)
         THEN [ok |-> TRUE,
               store |-> [store EXCEPT !.oauthProviderConfig =
                            Append(@, [projectConfigId |-> st.projectConfigId,
                                       id |-> st.id,
                                       proxiedOauthConfig |-> st.proxiedOauthConfig,
                                       standardOauthConfig |-> st.standardOauthConfig])]]
         ELSE [ok |-> FALSE, store |-> store]
    [] st.op = "projectConfig.update" ->
         IF st.id \in DOMAIN store.projectConfig
         THEN [ok |-> TRUE,
               store |-> [store EXCEPT !.projectConfig[st.id].credentialEnabled =
                            st.credentialEnabled]]
         ELSE [ok |-> FALSE, store |-> store]
    [] st.op = "project.update" ->
         IF st.id \in DOMAIN store.project
         THEN [ok |-> TRUE,
               store |-> [store EXCEPT !.project[st.id].isProductionMode =
                            st.isProductionMode]]
         ELSE [ok |-> FALSE, store |-> store]

\* the statements in order, stopping at the first failure
RECURSIVE ExecAll(_, _)
ExecAll(store, statements) ==
  IF statements = <<>> THEN [ok |-> TRUE, store |-> store]
  ELSE LET r == ExecStatement(store, Head(statements)) IN
       IF r.ok THEN ExecAll(r.store, Tail(statements)) ELSE r

\* the same statements awaited one by one, outside any transaction: what ran
\* before a failure stays
ExecWithoutTransaction(store, statements) == ExecAll(store, statements)

\* prismaClient.$transaction(statements): all of them, or none
Transaction(store, statements) ==
  LET r == ExecAll(store, statements) IN
  IF r.ok THEN r ELSE [ok |-> FALSE, store |-> store]

\* ---------------------------------------------------------------- creator
\* NewProject with the two flags of projectOptions exchanged
NewProjectSwapped(projectId, configId, projectOptions) ==
  [id |-> projectId,
   isProductionMode |-> FALSE,
   config |-> [id |-> configId,
               allowLocalhost |-> projectOptions.credentialEnabled,
               credentialEnabled |-> projectOptions.allowLocalhost,
               oauthProviderConfigs |->
                 [i \in 1..Len(defaultProviderIds) |->
                    [projectConfigId |-> configId,
                     id |-> defaultProviderIds[i],
                     proxiedOauthConfig |->
                       Some([type |-> typedToUppercase(defaultProviderIds[i])]),
                     standardOauthConfig |-> None]],
               domains |-> <<>>]]

\* what tx.project.create returns (include: fullProjectInclude): the project
\* row, its config row and the four stub provider rows
NewProject(projectId, configId, projectOptions) ==
  [id |-> projectId,
   isProductionMode |-> FALSE,
   config |-> [id |-> configId,
               allowLocalhost |-> projectOptions.allowLocalhost,
               credentialEnabled |-> projectOptions.credentialEnabled,
               oauthProviderConfigs |->
                 [i \in 1..Len(defaultProviderIds) |->
                    [projectConfigId |-> configId,
                     id |-> defaultProviderIds[i],
                     proxiedOauthConfig |->
                       Some([type |-> typedToUppercase(defaultProviderIds[i])]),
                     standardOauthConfig |-> None]],
               domains |-> <<>>]]

\* the rows of a created project written into the store
InsertProject(store, project) ==
  [project |-> store.project @@
                 (project.id :> [isProductionMode |-> project.isProductionMode,
                                 configId |-> project.config.id]),
   projectConfig |-> store.projectConfig @@
                 (project.config.id :> [allowLocalhost |-> project.config.allowLocalhost,
                                        credentialEnabled |-> project.config.credentialEnabled]),
   oauthProviderConfig |-> store.oauthProviderConfig \o project.config.oauthProviderConfigs,
   projectDomain |-> store.projectDomain \o project.config.domains]

\* AppendedIds writing the new id alone
OverwrittenIds(items, projectId) == <<projectId>>

\* AppendedIds putting the new id first
PrependedIds(items, projectId) == <<projectId>> \o items

\* the list createProject writes: [...managedProjectIds ?? [], project.id]
AppendedIds(items, projectId) == Append(items, projectId)

\* the serverMetadata createProject writes back, or a throw (spreading a
\* value that is not iterable)
NewServerMetadata(serverMetadata, projectId) ==
  LET serverMetadataTx ==
        IF serverMetadata.kind = "null"
        THEN [kind |-> "object", managed |-> "absent", items |-> <<>>, theme |-> "absent"]
        ELSE serverMetadata
  IN IF serverMetadataTx.managed = "number"
     THEN [threw |-> TRUE, serverMetadata |-> serverMetadata]
     ELSE [threw |-> FALSE,
           serverMetadata |->
             [serverMetadataTx EXCEPT
                !.managed = IF @ = "absent" THEN "stringArray" ELSE @,
                !.items = AppendedIds(@, projectId)]]

\* ------------------------------------------------------------------ inputs
Users == {"u1", "u2"}

MetadataOf(managed, theme) ==
  [kind |-> "object", managed |-> managed, items |-> <<>>, theme |-> theme]

\* the metadata an administrator may hold before any call
InitialMetadata ==
  {NullMetadata, MetadataOf("absent", "dark"), MetadataOf("stringArray", "dark"),
   MetadataOf("number", "absent"), MetadataOf("mixedArray", "absent")}

CreatorArgs ==
  [projectId : {"internal"}, id : Users \cup {"ghost"}]
  \cup {[projectId |-> "other", id |-> "u1"]}

ProjectOptions == [allowLocalhost : BOOLEAN, credentialEnabled : BOOLEAN]

Tokens ==
  {[valid |-> FALSE, userId |-> "u1", projectId |-> "internal"]}
  \cup [valid : {TRUE}, userId : Users \cup {"ghost"}, projectId : {"internal", "other"}]

\* project ids a caller may name: each is unknown to the store until a
\* createProject that drew it commits
TargetIds == {UuidPool[2 * i - 1] : i \in 1..MaxProjects}

DomainLists == {<<>>, <<[domain |-> "https://a.example", handlerPath |-> "/handler"]>>}

ProviderEntries ==
  {[id |-> "github", type |-> "shared-github"],
   [id |-> "ms", type |-> "microsoft", clientId |-> "cid", clientSecret |-> "sec",
    tenantId |-> Some("tid")],
   [id |-> "x", type |-> "gitlab"]}

SeqsUpTo(S, n) == UNION {[1..k -> S] : k \in 0..n}

Optional(S) == {None} \cup {Some(v) : v \in S}

UpdateOptions ==
  [domains : Optional(DomainLists),
   oauthProviders : Optional(SeqsUpTo(ProviderEntries, MaxProviders)),
   credentialEnabled : Optional(BOOLEAN),
   isProductionMode : Optional(BOOLEAN)]

EmptyOptions ==
  [domains |-> None, oauthProviders |-> None, credentialEnabled |-> None,
   isProductionMode |-> None]

\* ------------------------------------------------------------------- state
VARIABLES
  db,           \* committed project, projectConfig, oauthProviderConfig, projectDomain
  projectUser,  \* committed projectUser rows of the "internal" project
  rowLock,      \* per projectUser row: the transaction holding its write lock
  uuids,        \* how many identifiers have been handed out
  pc,           \* per request handler: where it is
  call,         \* per request handler: the operation and its arguments
  tx,           \* per request handler: locals of the running operation
  ret,          \* per request handler: what the last finished call returned
  budget,       \* calls of each kind still allowed to begin
  console       \* per request handler: what the call it serves has logged so far

vars == <<db, projectUser, rowLock, uuids, pc, call, tx, ret, budget, console>>

NoCall == [op |-> "none"]
NoTx == [project |-> None, projectUserTx |-> None, serverMetadata |-> None]
NoRet == [kind |-> "none"]

\* no project yet; the administrators hold the given metadata
InitWith(metadata) ==
  /\ db = EmptyProjectTables
  /\ projectUser \in [Users -> [serverMetadata : metadata]]
  /\ rowLock = [u \in Users |-> "free"]
  /\ uuids = 0
  /\ pc = [p \in Procs |-> "idle"]
  /\ call = [p \in Procs |-> NoCall]
  /\ tx = [p \in Procs |-> NoTx]
  /\ ret = [p \in Procs |-> NoRet]
  /\ budget = [create |-> MaxProjects, update |-> MaxUpdates]
  /\ console = [p \in Procs |-> <<>>]

\* administrators that have no metadata yet
Init == InitWith({NullMetadata})

\* administrators with any metadata the user store may hold
InitAnyMetadata == InitWith(InitialMetadata)

\* console.error, once per message
Log(self, messages) == console' = [console EXCEPT ![self] = @ \o messages]

\* the call ends: its result (a value, null or a throw) is ready for the caller
Return(self, value) ==
  /\ pc' = [pc EXCEPT ![self] = "return"]
  /\ tx' = [tx EXCEPT ![self] = NoTx]
  /\ ret' = [ret EXCEPT ![self] = value]

Goto(self, label) ==
  /\ pc' = [pc EXCEPT ![self] = label]
  /\ UNCHANGED ret

\* the caller takes the result; the handler is free for the next request
Respond(self) ==
  /\ pc[self] = "return"
  /\ pc' = [pc EXCEPT ![self] = "idle"]
  /\ call' = [call EXCEPT ![self] = NoCall]
  /\ ret' = [ret EXCEPT ![self] = NoRet]
  /\ console' = [console EXCEPT ![self] = <<>>]
  /\ UNCHANGED <<db, projectUser, rowLock, uuids, tx, budget>>

\* ----------------------------------------------------------- isProjectAdmin
IsProjectAdmin(self, projectId, adminAccessToken) ==
  /\ pc[self] = "idle"
  /\ call' = [call EXCEPT ![self] = [op |-> "isProjectAdmin", projectId |-> projectId,
                                      adminAccessToken |-> adminAccessToken]]
  /\ Return(self, [kind |-> "bool",
                   value |-> isProjectAdmin(projectUser, projectId, adminAccessToken)])
  /\ UNCHANGED <<db, projectUser, rowLock, uuids, budget, console>>

\* ------------------------------------------------------------ createProject
\* the precondition fails: the call throws before any transaction begins
CreateProjectRejected(self, creator, projectOptions) ==
  /\ pc[self] = "idle"
  /\ budget.create > 0
  /\ creator.projectId # "internal"
  /\ budget' = [budget EXCEPT !.create = @ - 1]
  /\ call' = [call EXCEPT ![self] = [op |-> "createProject", projectUser |-> creator,
                                      projectOptions |-> projectOptions]]
  /\ Return(self, [kind |-> "throw"])
  /\ UNCHANGED <<db, projectUser, rowLock, uuids, console>>

\* the transaction begins and tx.project.create runs inside it
TxProjectCreate(self, creator, projectOptions) ==
  /\ pc[self] = "idle"
  /\ budget.create > 0
  /\ creator.projectId = "internal"
  /\ budget' = [budget EXCEPT !.create = @ - 1]
  /\ call' = [call EXCEPT ![self] = [op |-> "createProject", projectUser |-> creator,
                                      projectOptions |-> projectOptions]]
  /\ uuids' = uuids + 2
  /\ tx' = [tx EXCEPT ![self].project =
              Some(NewProject(UuidPool[uuids + 1], UuidPool[uuids + 2], projectOptions))]
  /\ Goto(self, "tx.projectUser.findUniqueOrThrow")
  /\ UNCHANGED <<db, projectUser, rowLock, console>>

\* tx.projectUser.findUniqueOrThrow: reads the committed row, or throws and
\* the transaction rolls back
TxFindUser(self) ==
  /\ pc[self] = "tx.projectUser.findUniqueOrThrow"
  /\ IF call[self].projectUser.id \in DOMAIN projectUser
     THEN /\ tx' = [tx EXCEPT ![self].projectUserTx =
                      Some([projectUserId |-> call[self].projectUser.id,
                            serverMetadata |->
                              projectUser[call[self].projectUser.id].serverMetadata])]
          /\ pc' = [pc EXCEPT ![self] = "tx.projectUser.update"]
          /\ UNCHANGED ret
     ELSE Return(self, [kind |-> "throw"])
  /\ UNCHANGED <<db, projectUser, rowLock, uuids, call, budget, console>>

\* tx.projectUser.update: takes the row's write lock and writes the merged
\* metadata inside the transaction, or throws and the transaction rolls back
TxUpdateUser(self) ==
  /\ pc[self] = "tx.projectUser.update"
  /\ LET userTx == tx[self].projectUserTx[1]
         merged == NewServerMetadata(userTx.serverMetadata, tx[self].project[1].id)
     IN IF merged.threw
        THEN /\ Return(self, [kind |-> "throw"])
             /\ UNCHANGED rowLock
        ELSE /\ rowLock[userTx.projectUserId] = "free"
             /\ rowLock' = [rowLock EXCEPT ![userTx.projectUserId] = self]
             /\ tx' = [tx EXCEPT ![self].serverMetadata = Some(merged.serverMetadata)]
             /\ pc' = [pc EXCEPT ![self] = "commit"]
             /\ UNCHANGED ret
  /\ UNCHANGED <<db, projectUser, uuids, call, budget, console>>

\* the transaction commits; createProject returns the assembled project
TxCommit(self) ==
  /\ pc[self] = "commit"
  /\ LET userId == tx[self].projectUserTx[1].projectUserId IN
     /\ db' = InsertProject(db, tx[self].project[1])
     /\ projectUser' = [projectUser EXCEPT ![userId].serverMetadata =
                          tx[self].serverMetadata[1]]
     /\ rowLock' = [rowLock EXCEPT ![userId] = "free"]
  /\ Return(self, [kind |-> "project",
                   value |-> projectJsonFromDbType(tx[self].project[1])])
  /\ Log(self, projectJsonFromDbTypeLog(tx[self].project[1]))
  /\ UNCHANGED <<uuids, call, budget>>

\* ------------------------------------------------- updateProject, getProject
\* ProjectNotFound throwing instead of returning null
ProjectNotFoundThrows(self) == Return(self, [kind |-> "throw"])

\* if (!project) return null
ProjectNotFound(self) == Return(self, [kind |-> "null"])

\* the first findUnique: not found returns null, found goes on
UpdateProjectFind(self, op, projectId, options) ==
  /\ pc[self] = "idle"
  /\ call' = [call EXCEPT ![self] = [op |-> op, projectId |-> projectId,
                                      options |-> options]]
  /\ LET project == findUnique(db, projectId) IN
     IF project = None
     THEN ProjectNotFound(self)
     ELSE /\ tx' = [tx EXCEPT ![self].project = project]
          /\ Goto(self, "$transaction")
  /\ UNCHANGED <<db, projectUser, rowLock, uuids, console>>

UpdateProject(self, projectId, options) ==
  /\ budget.update > 0
  /\ budget' = [budget EXCEPT !.update = @ - 1]
  /\ UpdateProjectFind(self, "updateProject", projectId, options)

GetProject(self, projectId) ==
  /\ UNCHANGED budget
  /\ UpdateProjectFind(self, "getProject", projectId, EmptyOptions)

\* prismaClient.$transaction(transaction): commits, or throws
UpdateProjectTransaction(self) ==
  /\ pc[self] = "$transaction"
  /\ LET result == Transaction(db, BuildTransaction(tx[self].project[1],
                                                    call[self].projectId,
                                                    call[self].options))
     IN IF result.ok
        THEN /\ db' = result.store
             /\ pc' = [pc EXCEPT ![self] = "findUnique"]
             /\ UNCHANGED <<tx, ret>>
        ELSE /\ db' = result.store
             /\ Return(self, [kind |-> "throw"])
  /\ Log(self, BuildTransactionLog(call[self].options))
  /\ UNCHANGED <<projectUser, rowLock, uuids, call, budget>>

\* the second findUnique and the assembled result
UpdateProjectReread(self) ==
  /\ pc[self] = "findUnique"
  /\ LET updatedProject == findUnique(db, call[self].projectId) IN
     IF updatedProject = None
     THEN /\ Return(self, [kind |-> "null"])
          /\ UNCHANGED console
     ELSE /\ Return(self, [kind |-> "project",
                           value |-> projectJsonFromDbType(updatedProject[1])])
          /\ Log(self, projectJsonFromDbTypeLog(updatedProject[1]))
  /\ UNCHANGED <<db, projectUser, rowLock, uuids, call, budget>>

GuardSteps(handlers, tokens) ==
  \E self \in handlers, projectId \in TargetIds, token \in tokens :
    IsProjectAdmin(self, projectId, token)

CreateSteps(handlers, creators, projectOptionss) ==
  \/ \E self \in handlers, creator \in creators, projectOptions \in projectOptionss :
       CreateProjectRejected(self, creator, projectOptions)
  \/ \E self \in handlers, creator \in creators, projectOptions \in projectOptionss :
       TxProjectCreate(self, creator, projectOptions)
  \/ \E self \in handlers : TxFindUser(self)
  \/ \E self \in handlers : TxUpdateUser(self)
  \/ \E self \in handlers : TxCommit(self)

UpdateSteps(handlers, targets, updates) ==
  \/ \E self \in handlers, projectId \in targets, options \in updates :
       UpdateProject(self, projectId, options)
  \/ \E self \in handlers, projectId \in targets : GetProject(self, projectId)
  \/ \E self \in handlers : UpdateProjectTransaction(self)
  \/ \E self \in handlers : UpdateProjectReread(self)

RespondSteps(handlers) == \E self \in handlers : Respond(self)

\* the updates handlers race with: one flag, a domain list with a flag, a
\* provider list repeating an id with a flag, a provider list with an unknown
\* type and a flag
RacingUpdates ==
  {[EmptyOptions EXCEPT !.credentialEnabled = Some(TRUE)],
   [EmptyOptions EXCEPT !.domains = Some(<<[domain |-> "https://a.example",
                                            handlerPath |-> "/handler"]>>),
                        !.isProductionMode = Some(TRUE)],
   [EmptyOptions EXCEPT !.oauthProviders = Some(<<[id |-> "github", type |-> "shared-github"],
                                                  [id |-> "github", type |-> "shared-github"]>>),
                        !.isProductionMode = Some(TRUE)],
   [EmptyOptions EXCEPT !.oauthProviders = Some(<<[id |-> "x", type |-> "gitlab"],
                                                  [id |-> "github", type |-> "shared-github"]>>),
                        !.credentialEnabled = Some(FALSE)]}

\* the createProject of the scenario: allowLocalhost = true, credentialEnabled = false
ScenarioProjectOptions == {[allowLocalhost |-> TRUE, credentialEnabled |-> FALSE]}

\* each flag once true, once false
BothProjectOptions ==
  {[allowLocalhost |-> TRUE, credentialEnabled |-> FALSE],
   [allowLocalhost |-> FALSE, credentialEnabled |-> TRUE]}

\* administrator u1, as a user of "internal" and as a user of another project
SomeCreators == {[projectId |-> "internal", id |-> "u1"], [projectId |-> "other", id |-> "u1"]}

\* the id the first createProject draws: unknown to the store until it commits
FirstTarget == {UuidPool[1]}

\* concurrent request handlers creating, updating and reading projects
Next ==
  \/ CreateSteps(Procs, SomeCreators, ScenarioProjectOptions)
  \/ UpdateSteps(Procs, TargetIds, RacingUpdates)
  \/ RespondSteps(Procs)

Spec == Init /\ [][Next]_vars

\* one request handler, every call returning before the next begins, with
\* every update in UpdateOptions
NextSeq ==
  \/ CreateSteps({"r1"}, SomeCreators, ScenarioProjectOptions)
  \/ UpdateSteps({"r1"}, FirstTarget, UpdateOptions)
  \/ RespondSteps({"r1"})

SpecSeq == Init /\ [][NextSeq]_vars

\* one request handler creating projects and asking isProjectAdmin, over
\* administrators with any metadata
NextGuard ==
  \/ GuardSteps({"r1"}, Tokens)
  \/ CreateSteps({"r1"}, CreatorArgs, BothProjectOptions)
  \/ RespondSteps({"r1"})

SpecGuard == InitAnyMetadata /\ [][NextGuard]_vars

\* the sub-records a stored provider row may carry: the assembler tests each
\* for presence on its own, so a row may hold neither, either or both
StoredProviderShapes ==
  [proxiedOauthConfig : Optional({[type |-> "GITHUB"]}),
   standardOauthConfig : Optional({[type |-> "MICROSOFT", clientId |-> "cid",
                                    clientSecret |-> "sec", tenantId |-> Some("tid")]})]

\* provider slugs, unique within a config
StoredProviderIds == <<"p1", "p2", "p3", "p4">>

\* the provider rows of one config, in storage order
StoredProviderConfigs(configId) ==
  {[i \in 1..Len(shapes) |->
      [projectConfigId |-> configId,
       id |-> StoredProviderIds[i],
       proxiedOauthConfig |-> shapes[i].proxiedOauthConfig,
       standardOauthConfig |-> shapes[i].standardOauthConfig]] :
     shapes \in SeqsUpTo(StoredProviderShapes, MaxProviders)}

\* a store that already holds one project, with any provider rows
InitStored ==
  /\ db \in {InsertProject(EmptyProjectTables,
                           [NewProject(UuidPool[1], UuidPool[2], projectOptions)
                              EXCEPT !.config.oauthProviderConfigs = rows]) :
               projectOptions \in ScenarioProjectOptions,
               rows \in StoredProviderConfigs(UuidPool[2])}
  /\ projectUser = [u \in Users |-> [serverMetadata |-> NullMetadata]]
  /\ rowLock = [u \in Users |-> "free"]
  /\ uuids = 2
  /\ pc = [p \in Procs |-> "idle"]
  /\ call = [p \in Procs |-> NoCall]
  /\ tx = [p \in Procs |-> NoTx]
  /\ ret = [p \in Procs |-> NoRet]
  /\ budget = [create |-> MaxProjects, update |-> MaxUpdates]
  /\ console = [p \in Procs |-> <<>>]

\* one request handler reading and updating a project found in the store
NextStored ==
  \/ UpdateSteps({"r1"}, TargetIds, RacingUpdates)
  \/ RespondSteps({"r1"})

SpecStored == InitStored /\ [][NextStored]_vars

\* =================================================================== claims
\* the handler that takes the step, if it is in the named place before it
Leaves(self, label) == pc[self] = label /\ pc'[self] # label

InUpdate(self) == call[self].op \in {"updateProject", "getProject"}

\* what the key managedProjectIds lists: nothing when there is no such key
ManagedItems(serverMetadata) == serverMetadata.items

\* ----------------------------------------------------------------------- C1
\* C1: isProjectAdmin returns false, and does not throw, when the token does
\* not decode, when it is not of the "internal" project, when its subject is
\* no administrator, and when projectId is not in the administrator's managed
\* list (also when the administrator has no such list); it returns true only
\* when all four checks pass.
C1_FailClosed ==
  \A self \in Procs :
    (pc[self] = "return" /\ call[self].op = "isProjectAdmin") =>
      LET token == call[self].adminAccessToken
          known == token.userId \in DOMAIN projectUser
          metadata == projectUser[token.userId].serverMetadata
          listed == known /\ metadata.managed = "stringArray"
                    /\ includes(metadata.items, call[self].projectId)
          passes == token.valid /\ token.projectId = "internal" /\ known /\ listed
      IN /\ ~token.valid => ret[self].value = "false"
         /\ token.projectId # "internal" => ret[self].value = "false"
         /\ ~known => ret[self].value = "false"
         /\ (known /\ metadata.managed \in {"absent", "stringArray"} /\ ~listed)
              => ret[self].value = "false"
         /\ ret[self].value = "true" => passes

\* ----------------------------------------------------------------------- C2
\* a statement's write is in the store (what a deleteMany removed is seen
\* through the rows created after it)
Visible(store, st) ==
  CASE st.op = "projectDomain.create" ->
         \E i \in 1..Len(store.projectDomain) :
           store.projectDomain[i] = [projectConfigId |-> st.projectConfigId,
                                     domain |-> st.domain, handlerPath |-> st.handlerPath]
    [] st.op = "oauthProviderConfig.create" ->
         \E i \in 1..Len(store.oauthProviderConfig) :
           store.oauthProviderConfig[i] =
             [projectConfigId |-> st.projectConfigId, id |-> st.id,
              proxiedOauthConfig |-> st.proxiedOauthConfig,
              standardOauthConfig |-> st.standardOauthConfig]
    [] st.op = "projectConfig.update" ->
         st.id \in DOMAIN store.projectConfig
         /\ store.projectConfig[st.id].credentialEnabled = st.credentialEnabled
    [] st.op = "project.update" ->
         st.id \in DOMAIN store.project
         /\ store.project[st.id].isProductionMode = st.isProductionMode
    [] st.op \in {"projectDomain.deleteMany", "oauthProviderConfig.deleteMany"} -> TRUE

\* the statements of the update a handler is running
Statements(self) ==
  BuildTransaction(tx[self].project[1], call[self].projectId, call[self].options)

AllVisible(store, statements) ==
  \A i \in 1..Len(statements) : Visible(store, statements[i])

C2_Step ==
  \A self \in Procs :
    Leaves(self, "$transaction") =>
      (db' = db \/ (pc'[self] = "findUnique" /\ AllVisible(db', Statements(self))))

\* C2: an updateProject call is all-or-nothing: the one step in which its
\* writes reach the committed store, the store every other handler reads,
\* leaves either every write of the call visible or the store as it was, also
\* when a statement fails.
C2_AllOrNothing == [][C2_Step]_vars

\* a call given a provider list that repeats an id threw, the four stub rows
\* of its project still in place, while another handler is reading a project
C2_Witness ==
  \E self \in Procs : \E other \in Procs \ {self} :
    /\ pc[self] = "return" /\ call[self].op = "updateProject"
    /\ ret[self].kind = "throw"
    /\ call[self].options.oauthProviders # None
    /\ call[self].options.isProductionMode = Some(TRUE)
    /\ ~db.project[call[self].projectId].isProductionMode
    /\ Len(Rows(db.oauthProviderConfig,
                db.project[call[self].projectId].configId)) = 4
    /\ call[other].op = "getProject" /\ pc[other] = "findUnique"

\* ----------------------------------------------------------------------- C3
\* the four groups of a project as the store holds them
Groups(store, projectId) ==
  LET project == ProjectDB(store, projectId) IN
  [domains |-> project.config.domains,
   oauthProviders |-> project.config.oauthProviderConfigs,
   credentialEnabled |-> project.config.credentialEnabled,
   isProductionMode |-> project.isProductionMode]

C3_Step ==
  \A self \in Procs :
    (pc'[self] # pc[self] /\ call'[self].op \in {"updateProject", "getProject"}
     /\ call'[self].projectId \in DOMAIN db.project) =>
      LET options == call'[self].options
          before == Groups(db, call'[self].projectId)
          after == Groups(db', call'[self].projectId)
      IN /\ options.domains = None => after.domains = before.domains
         /\ options.oauthProviders = None => after.oauthProviders = before.oauthProviders
         /\ options.credentialEnabled = None =>
              after.credentialEnabled = before.credentialEnabled
         /\ options.isProductionMode = None =>
              after.isProductionMode = before.isProductionMode
         /\ call'[self].op = "getProject" => db' = db

\* C3: updateProject is a sparse update: no step of a call changes the stored
\* value of a group (domains, OAuth providers, credentialEnabled,
\* isProductionMode) the update does not provide, and no step of getProject
\* changes the store.
C3_SparseUpdate == [][C3_Step]_vars

\* updateProject with only credentialEnabled = true returned a view with the
\* flag set, the four stub providers and no domain, on a project created with
\* the flag off
C3_Witness ==
  \E self \in Procs :
    /\ pc[self] = "return" /\ call[self].op = "updateProject"
    /\ call[self].options = [EmptyOptions EXCEPT !.credentialEnabled = Some(TRUE)]
    /\ ret[self].kind = "project"
    /\ ret[self].value.evaluatedConfig.credentialEnabled
    /\ Len(ret[self].value.evaluatedConfig.oauthProviders) = 4
    /\ ret[self].value.evaluatedConfig.domains = <<>>
    /\ ret[self].value.evaluatedConfig.allowLocalhost

\* ----------------------------------------------------------------------- C4
\* the domain rows a submitted list stands for
DomainRows(configId, list) ==
  [i \in 1..Len(list) |-> [projectConfigId |-> configId,
                           domain |-> list[i].domain,
                           handlerPath |-> list[i].handlerPath]]

\* C4: after updateProject was given a domains list for an existing project,
\* the stored domain rows of the project's config are exactly the submitted
\* list.
C4_DomainsReplaced ==
  \A self \in Procs :
    (pc[self] = "return" /\ call[self].op = "updateProject"
     /\ ret[self].kind # "null" /\ call[self].options.domains # None) =>
      LET configId == db.project[call[self].projectId].configId IN
      Rows(db.projectDomain, configId) = DomainRows(configId, call[self].options.domains[1])

\* ----------------------------------------------------------------------- C5
\* C5: what createProject returns has isProductionMode = false, the caller's
\* allowLocalhost and credentialEnabled, no domain, and exactly four OAuth
\* provider entries, one per family, each of shared type.
C5_CreatedProject ==
  \A self \in Procs :
    (pc[self] = "return" /\ call[self].op = "createProject" /\ ret[self].kind = "project") =>
      LET project == ret[self].value
          providers == project.evaluatedConfig.oauthProviders
      IN /\ project.isProductionMode = FALSE
         /\ project.evaluatedConfig.allowLocalhost = call[self].projectOptions.allowLocalhost
         /\ project.evaluatedConfig.credentialEnabled =
              call[self].projectOptions.credentialEnabled
         /\ project.evaluatedConfig.domains = <<>>
         /\ Len(providers) = 4
         /\ {providers[i].type : i \in 1..4} = sharedProviders
         /\ {providers[i].id : i \in 1..4} = standardProviders
         /\ \A i \in 1..4 : providers[i].type = "shared-" \o providers[i].id

\* createProject with allowLocalhost = true, credentialEnabled = false returned
C5_Witness ==
  \E self \in Procs :
    /\ pc[self] = "return" /\ call[self].op = "createProject" /\ ret[self].kind = "project"
    /\ call[self].projectOptions = [allowLocalhost |-> TRUE, credentialEnabled |-> FALSE]
    /\ ret[self].value.id \in DOMAIN db.project

\* ----------------------------------------------------------------------- C6
C6_Step ==
  \A self \in Procs :
    Leaves(self, "commit") =>
      LET userId == call[self].projectUser.id
          before == projectUser[userId].serverMetadata
          after == projectUser'[userId].serverMetadata
      IN /\ ManagedItems(after) = Append(ManagedItems(before), tx[self].project[1].id)
         /\ after.theme = before.theme
         /\ \A other \in Users \ {userId} : projectUser'[other] = projectUser[other]

\* every project of the store is in the managed list of an administrator
C6_AllListed ==
  \A projectId \in DOMAIN db.project :
    \E userId \in Users : includes(ManagedItems(projectUser[userId].serverMetadata), projectId)

\* C6: a createProject that commits leaves its administrator's
\* managedProjectIds the list held before with the new project id appended,
\* the other keys of that metadata and every other administrator's metadata
\* unchanged; so with calls one after the other every created project is
\* listed.
C6_AppendsToCreator == [][C6_Step]_vars /\ []C6_AllListed

\* an administrator whose metadata held another key and no list has created
\* two projects: both are listed, the other key is still there
C6_Witness ==
  /\ projectUser["u1"].serverMetadata.theme = "dark"
  /\ Len(ManagedItems(projectUser["u1"].serverMetadata)) = 2
  /\ \A i \in 1..2 : ManagedItems(projectUser["u1"].serverMetadata)[i] \in DOMAIN db.project

\* ----------------------------------------------------------------------- C7
C7_Step ==
  \A self \in Procs :
    (pc[self] = "idle" /\ call'[self].op \in {"updateProject", "getProject"}
     /\ call'[self].projectId \notin DOMAIN db.project) =>
      /\ pc'[self] = "return"
      /\ ret'[self] = [kind |-> "null"]
      /\ db' = db
      /\ projectUser' = projectUser

\* C7: getProject and updateProject on a project id the store does not hold
\* return null, whatever the update, and write nothing.
C7_NotFound == [][C7_Step]_vars

\* updateProject with a non-empty update returned null on an unknown id
C7_Witness ==
  \E self \in Procs :
    /\ pc[self] = "return" /\ call[self].op = "updateProject"
    /\ call[self].options.isProductionMode = Some(TRUE)
    /\ call[self].options.oauthProviders # None
    /\ call[self].projectId \notin DOMAIN db.project
    /\ ret[self].kind = "null"

\* ----------------------------------------------------------------------- C8
Vocabulary == sharedProviders \cup standardProviders

\* the provider rows a submitted list stands for: one per entry of a known
\* type, a shared entry with a proxied sub-record only, a standard entry with
\* a standard sub-record only
RECURSIVE ProviderRows(_, _)
ProviderRows(configId, list) ==
  IF list = <<>> THEN <<>>
  ELSE LET entry == Head(list) IN
       (IF entry.type \in sharedProviders
        THEN <<[projectConfigId |-> configId, id |-> entry.id,
                proxiedOauthConfig |-> Some([type |-> toDBSharedProvider(entry.type)]),
                standardOauthConfig |-> None]>>
        ELSE IF entry.type \in standardProviders
        THEN <<[projectConfigId |-> configId, id |-> entry.id,
                proxiedOauthConfig |-> None,
                standardOauthConfig |->
                  Some([type |-> toDBStandardProvider(entry.type),
                        clientId |-> entry.clientId,
                        clientSecret |-> entry.clientSecret,
                        tenantId |-> entry.tenantId])]>>
        ELSE <<>>)
       \o ProviderRows(configId, Tail(list))

\* no two entries of a known type carry the same id
KnownIdsDistinct(list) ==
  \A i, j \in 1..Len(list) :
    (i # j /\ list[i].type \in Vocabulary /\ list[j].type \in Vocabulary)
      => list[i].id # list[j].id

\* C8 as stated: after updateProject was given an oauthProviders list (and no
\* domains list) for an existing project, the stored provider rows of the
\* project's config are the rows of the submitted entries of a known type.
C8_ProvidersReplaced ==
  \A self \in Procs :
    (pc[self] = "return" /\ call[self].op = "updateProject"
     /\ ret[self].kind # "null" /\ call[self].options.oauthProviders # None
     /\ call[self].options.domains = None) =>
      LET configId == db.project[call[self].projectId].configId IN
      Rows(db.oauthProviderConfig, configId)
        = ProviderRows(configId, call[self].options.oauthProviders[1])

C8_Step ==
  \A self \in Procs :
    (Leaves(self, "$transaction") /\ call[self].options.oauthProviders # None) =>
      LET configId == tx[self].project[1].config.id
          list == call[self].options.oauthProviders[1]
          committed == pc'[self] = "findUnique"
      IN /\ committed =>
              Rows(db'.oauthProviderConfig, configId) = ProviderRows(configId, list)
         /\ ~committed => db' = db
         /\ ~KnownIdsDistinct(list) => ~committed
         /\ (KnownIdsDistinct(list) /\ call[self].options.domains = None) => committed

\* C8 amended: when the transaction of an updateProject given an
\* oauthProviders list commits, the provider rows of the project's config are
\* exactly one row per submitted entry of a known type (a proxied sub-record
\* only for a shared type, a standard sub-record only for a standard type) and
\* entries of an unknown type are skipped without failing the call; when two
\* entries of a known type carry the same id the transaction fails and the
\* store is left as it was.
C8_ProvidersReplacedOnCommit == [][C8_Step]_vars

\* a call whose list held an entry of unknown type, a shared and a standard
\* entry returned the project with the two known entries stored
C8_Witness ==
  \E self \in Procs :
    /\ pc[self] = "return" /\ call[self].op = "updateProject"
    /\ ret[self].kind = "project"
    /\ call[self].options.oauthProviders # None
    /\ \E i \in 1..Len(call[self].options.oauthProviders[1]) :
         call[self].options.oauthProviders[1][i].type \notin Vocabulary
    /\ Len(Rows(db.oauthProviderConfig, db.project[call[self].projectId].configId)) = 1
    /\ Len(ret[self].value.evaluatedConfig.oauthProviders) = 1

\* ----------------------------------------------------------------------- C9
\* the types of the submitted entries of a known type, in order
RECURSIVE KnownTypes(_)
KnownTypes(list) ==
  IF list = <<>> THEN <<>>
  ELSE (IF Head(list).type \in Vocabulary THEN <<Head(list).type>> ELSE <<>>)
       \o KnownTypes(Tail(list))

\* C9: the provider code mappings are mutually inverse within each family,
\* from the external names and from the internal enum values; so the provider
\* types updateProject returns are the known types it was given.
C9_RoundTrip ==
  /\ \A s \in sharedProviders : fromDBSharedProvider(toDBSharedProvider(s)) = s
  /\ \A t \in standardProviders : fromDBStandardProvider(toDBStandardProvider(t)) = t
  /\ \A e \in ProxiedOauthProviderType : toDBSharedProvider(fromDBSharedProvider(e)) = e
  /\ \A e \in StandardOauthProviderType : toDBStandardProvider(fromDBStandardProvider(e)) = e
  /\ \A self \in Procs :
       (pc[self] = "return" /\ call[self].op = "updateProject" /\ ret[self].kind = "project"
        /\ call[self].options.oauthProviders # None) =>
         LET providers == ret[self].value.evaluatedConfig.oauthProviders IN
         [i \in 1..Len(providers) |-> providers[i].type]
           = KnownTypes(call[self].options.oauthProviders[1])

\* updateProject returned a shared and a standard provider it was given
C9_Witness ==
  \E self \in Procs :
    /\ pc[self] = "return" /\ call[self].op = "updateProject" /\ ret[self].kind = "project"
    /\ call[self].options.oauthProviders # None
    /\ LET providers == ret[self].value.evaluatedConfig.oauthProviders IN
       /\ Len(providers) = 2
       /\ providers[1].type = "microsoft"
       /\ providers[2].type = "shared-github"

\* ---------------------------------------------------------------------- C10
C10_Step ==
  \A self \in Procs :
    Leaves(self, "commit") =>
      LET userId == call[self].projectUser.id
          read == tx[self].projectUserTx[1].serverMetadata
          held == projectUser[userId].serverMetadata
          written == projectUser'[userId].serverMetadata
      IN /\ ManagedItems(written) = Append(ManagedItems(read), tx[self].project[1].id)
         /\ ManagedItems(read) = ManagedItems(held) =>
              \A i \in 1..Len(ManagedItems(held)) :
                includes(ManagedItems(written), ManagedItems(held)[i])

\* C10: the list a createProject commits is the list its transaction read
\* with the new id appended, whatever the row holds by then (no compare and
\* swap): an id another createProject committed since the read is dropped, and
\* nothing is dropped when the row still holds what was read.
C10_ReadModifyWrite == [][C10_Step]_vars

\* the lost append: two projects created by u1 are committed, both calls are
\* over, and u1's managedProjectIds holds one id only
C10_Witness ==
  /\ Cardinality(DOMAIN db.project) = 2
  /\ \A self \in Procs : pc[self] \in {"idle", "return"}
  /\ projectUser["u2"].serverMetadata = NullMetadata
  /\ Len(ManagedItems(projectUser["u1"].serverMetadata)) = 1

\* ---------------------------------------------------------------------- C11
ExactlyOnePopulated(provider) ==
  (provider.proxiedOauthConfig # None) # (provider.standardOauthConfig # None)

NeitherPopulated(provider) ==
  provider.proxiedOauthConfig = None /\ provider.standardOauthConfig = None

BothPopulated(provider) ==
  provider.proxiedOauthConfig # None /\ provider.standardOauthConfig # None

NotExactlyOnePopulated(provider) == ~ExactlyOnePopulated(provider)

\* the ids of a list of rows, views or console messages about a provider
IdsOf(list) == [i \in 1..Len(list) |-> list[i].id]

LoggedProviderIds(messages) == [i \in 1..Len(messages) |-> messages[i].providerId]

\* the provider rows of the project a finished getProject / updateProject names
ReturnedFrom(self) == ProjectDB(db, call[self].projectId).config.oauthProviderConfigs

Assembled(self) ==
  pc[self] = "return" /\ InUpdate(self) /\ ret[self].kind = "project"

\* C11: when a project is assembled into its view, the provider list holds,
\* in storage order, exactly the stored rows with one sub-record populated;
\* a row with neither and a row with both is left out with a logged warning,
\* and the call still returns the project.
C11_ExactlyOneAppears ==
  \A self \in Procs :
    Assembled(self) =>
      /\ IdsOf(ret[self].value.evaluatedConfig.oauthProviders)
           = IdsOf(SelectSeq(ReturnedFrom(self), ExactlyOnePopulated))
      /\ LoggedProviderIds(SelectSeq(console[self],
                                     LAMBDA m : "providerId" \in DOMAIN m))
           = IdsOf(SelectSeq(ReturnedFrom(self), NotExactlyOnePopulated))

\* getProject returned a project that stores a row with both sub-records
C11_BothStored ==
  \E self \in Procs :
    /\ Assembled(self)
    /\ call[self].op = "getProject"
    /\ \E i \in 1..Len(ReturnedFrom(self)) : BothPopulated(ReturnedFrom(self)[i])

\* what the assembler does: a row appears exactly when it has some sub-record,
\* a row with both as its proxied sub-record alone and with no warning; only
\* a row with neither is left out and logged, and the call returns the project.
C11_SomePopulatedAppears ==
  \A self \in Procs :
    Assembled(self) =>
      LET rows == ReturnedFrom(self)
          kept == SelectSeq(rows, LAMBDA r : ~NeitherPopulated(r))
          providers == ret[self].value.evaluatedConfig.oauthProviders
      IN /\ IdsOf(providers) = IdsOf(kept)
         /\ \A i \in 1..Len(kept) :
              BothPopulated(kept[i]) =>
                providers[i] = [id |-> kept[i].id,
                                type |-> fromDBSharedProvider(
                                           kept[i].proxiedOauthConfig[1].type)]
         /\ console[self]
              = BuildTransactionLog(call[self].options)
                \o [i \in 1..Len(SelectSeq(rows, NeitherPopulated)) |->
                      [level |-> "error",
                       providerId |-> SelectSeq(rows, NeitherPopulated)[i].id,
                       projectId |-> call[self].projectId]]

====
